---- MODULE Spec2Model ----
(***************************************************************************)
(* VoiceMaker: the Flask request handlers of app.py and the three          *)
(* converters they drive (voice_converter.py, index_tts_converter.py,      *)
(* coqui_tts_converter.py).                                                *)
(*                                                                         *)
(* Each request is handled by one worker thread of the server.  A handler  *)
(* is cut into steps at its accesses to the state the threads share: the   *)
(* three module-level singletons and the upload folder.  Everything a      *)
(* handler does between two such accesses is part of one step.             *)
(*                                                                         *)
(* Spec      : NumThreads requests may be in flight at the same time.      *)
(* SeqSpec   : the same steps, one request at a time.                      *)
(* UnitSpec  : direct calls of the IndexTTSConverter synthesis methods.    *)
(***************************************************************************)
EXTENDS Integers, Sequences, FiniteSets, TLC

VARIABLES
    job,          \* per worker thread: the request it handles and its position
    singleton,    \* app.py:34-36, per backend: 0 = None, else the instance held
    constructed,  \* per backend: how many times its constructor has run
    installed,    \* environment: can the backend's model be loaded
    disk,         \* the upload folder: the files present, each with its writer
    nextId,       \* number of the next request to arrive
    call,         \* UnitSpec: one direct call of a converter method
    converter,    \* UnitSpec: the CoquiTTSConverter object the call is made on
    validation,   \* UnitSpec: one direct call of a validate_audio_file method
    outputs       \* the upload folder: the output files, each with its writer

vars ==
    <<job, singleton, constructed, installed, disk, nextId, call, converter,
      validation, outputs>>

(***************************************************************************)
(* Bounds                                                                  *)
(***************************************************************************)
NumThreads == 2
MaxRequests == 2
MaxIntensity == 12
MaxVoices == 3

(***************************************************************************)
(* Program constants                                                       *)
(***************************************************************************)
MaxTextLen == 5000
EmotionDim == 8
\* File sizes in bytes: the validators' bounds and the recommended range.
MinSize == 10000
MaxSize == 50 * 1024 * 1024
RecommendedMax == 5000000
\* Intensities are fixed-point: One stands for 1.0, 0 for 0.0.
One == 10

Threads == 1..NumThreads
Backends == {"edge", "index", "coqui"}
LocalBackends == {"index", "coqui"}
ALLOWED_AUDIO_EXTENSIONS == {"wav", "mp3", "ogg", "flac", "m4a"}

Min(a, b) == IF a < b THEN a ELSE b
Max(a, b) == IF a > b THEN a ELSE b

(***************************************************************************)
(* Request data.  A text is ws whitespace characters followed by body      *)
(* other characters; a file name is the sequence of its dot-separated      *)
(* parts, so "a.wav" is <<"a", "wav">> and "" is <<"">>.                   *)
(***************************************************************************)
NoText == [present |-> FALSE, ws |-> 0, body |-> 0]
Text(w, n) == [present |-> TRUE, ws |-> w, body |-> n]
TextInputs ==
    {NoText, Text(0, 0), Text(2, 0), Text(0, 3), Text(0, MaxTextLen + 1)}

len(t) == t.ws + t.body
strip(t) == [t EXCEPT !.ws = 0]
\* Python's truth value of request.form.get('text'): None and '' are false.
Truthy(t) == t.present /\ len(t) > 0

NoVoice == [present |-> FALSE, name |-> ""]
VoiceInputs ==
    {NoVoice} \cup
    {[present |-> TRUE, name |-> n] : n \in {"", "en-US-AriaNeural", "nonexistent-voice"}}

NoUpload == [present |-> FALSE, name |-> <<>>]
FileNames == {<<"">>, <<"a", "txt">>, <<"a", "wav">>, <<"b", "WAV">>}
Uploads == {NoUpload} \cup {[present |-> TRUE, name |-> n] : n \in FileNames}

lower(s) ==
    CASE s = "WAV" -> "wav"
      [] s = "MP3" -> "mp3"
      [] OTHER -> s

\* '.' in filename and filename.rsplit('.', 1)[1].lower() in ALLOWED_AUDIO_EXTENSIONS
allowed_file(filename) ==
    /\ Len(filename) >= 2
    /\ lower(filename[Len(filename)]) \in ALLOWED_AUDIO_EXTENSIONS

\* werkzeug's secure_filename leaves a name of ASCII letters and dots as it is.
secure_filename(filename) == filename

NoIntensity == [present |-> FALSE, numeric |-> TRUE, val |-> 0]
IntensityInputs ==
    {NoIntensity,
     [present |-> TRUE, numeric |-> FALSE, val |-> 0],
     [present |-> TRUE, numeric |-> TRUE, val |-> One + 5]}

NoVector == [present |-> FALSE, elems |-> <<>>]
ConstVec(n, x) == [i \in 1..n |-> x]
VectorInputs ==
    {NoVector} \cup
    {[present |-> TRUE, elems |-> ConstVec(n, One + 5)] :
        n \in {EmotionDim - 1, EmotionDim, EmotionDim + 1}}

Modes == {"none", "audio", "vector"}

\* size is the length in bytes of the upload f1 (0 where no step reads it).
NoReq ==
    [text |-> NoText, voice |-> NoVoice, f1 |-> NoUpload, f2 |-> NoUpload,
     mode |-> "none", emo |-> NoUpload, intensity |-> NoIntensity,
     vec |-> NoVector, size |-> 0]

\* Uploads of 5 KB and of 2 MB.  Flask refuses a request body above
\* MAX_CONTENT_LENGTH (50 MB) before a handler reads the upload.
UploadSizes == {5000, 2000000}

(***************************************************************************)
(* The upload folder.  A path is a prefix and either the uploaded name or  *)
(* the token os.urandom(8).hex() gave (tok > 0).                           *)
(***************************************************************************)
NamedPath(prefix, filename) == [prefix |-> prefix, name |-> filename, tok |-> 0]
RandomPath(prefix, t) == [prefix |-> prefix, name |-> <<>>, tok |-> t]

exists(d, p) == \E e \in d : e.path = p
save(d, p, r, n) ==
    {e \in d : e.path # p} \cup {[path |-> p, owner |-> r, size |-> n]}
remove(d, p) == {e \in d : e.path # p}

(***************************************************************************)
(* validate_audio_file of the three converters.  A file is what the        *)
(* method finds at its path: present or not, readable (os.path.getsize     *)
(* returns) or not, and its size.  A result is the dict returned: keys is  *)
(* the set of its keys; raised tells that the method raised instead.       *)
(***************************************************************************)
NoFile == [exists |-> FALSE, readable |-> FALSE, size |-> 0]
File(n) == [exists |-> TRUE, readable |-> TRUE, size |-> n]
Unreadable == [exists |-> TRUE, readable |-> FALSE, size |-> 0]
\* The file the upload folder holds at path p.
FileAt(d, p) ==
    IF exists(d, p) THEN File((CHOOSE e \in d : e.path = p).size) ELSE NoFile

NoResult ==
    [raised |-> FALSE, valid |-> FALSE, keys |-> {}, error |-> "", size |-> 0,
     recommended |-> FALSE]
\* {'valid': False, 'error': error}
Invalid(error) ==
    [NoResult EXCEPT !.keys = {"valid", "error"}, !.error = error]
\* An exception leaves the try block.
Raises(error) == [NoResult EXCEPT !.raised = TRUE, !.error = error]

\* A method without the except clause: the exception reaches the caller.
Propagate(result) == result

\* "except Exception as e: return {'valid': False, 'error': str(e)}"
ExceptException(result) ==
    IF result.raised THEN Invalid(result.error) ELSE result

\* VoiceConverter.validate_audio_file
voice_validate_audio_file(file) ==
    ExceptException(
        IF ~file.exists THEN Invalid("File does not exist")
        ELSE IF ~file.readable THEN Raises("OSError")
        ELSE [NoResult EXCEPT !.valid = TRUE, !.keys = {"valid", "size", "path"},
                              !.size = file.size])

\* A validator that refuses every file outside the recommended range.
validate_recommended_only(file) ==
    ExceptException(
        IF ~file.exists THEN Invalid("File does not exist")
        ELSE IF ~file.readable THEN Raises("OSError")
        ELSE IF file.size <= MinSize THEN Invalid("Audio file too small")
        ELSE IF file.size >= RecommendedMax THEN Invalid("Audio file too large")
        ELSE [NoResult EXCEPT
                !.valid = TRUE,
                !.keys = {"valid", "size", "path", "recommended"},
                !.size = file.size,
                !.recommended = TRUE])

\* CoquiTTSConverter.validate_audio_file
coqui_validate_audio_file(file) ==
    ExceptException(
        IF ~file.exists THEN Invalid("File does not exist")
        ELSE IF ~file.readable THEN Raises("OSError")
        ELSE IF file.size < MinSize THEN Invalid("Audio file too small")
        ELSE IF file.size > MaxSize THEN Invalid("Audio file too large")
        ELSE [NoResult EXCEPT
                !.valid = TRUE,
                !.keys = {"valid", "size", "path", "recommended"},
                !.size = file.size,
                !.recommended = MinSize < file.size /\ file.size < RecommendedMax])

\* IndexTTSConverter.validate_audio_file
local_validate_audio_file(file) ==
    ExceptException(
        IF ~file.exists THEN Invalid("File does not exist")
        ELSE IF ~file.readable THEN Raises("OSError")
        ELSE IF file.size < MinSize THEN Invalid("Audio file too small")
        ELSE IF file.size > MaxSize THEN Invalid("Audio file too large")
        ELSE [NoResult EXCEPT
                !.valid = TRUE,
                !.keys = {"valid", "size", "path", "recommended"},
                !.size = file.size,
                !.recommended = MinSize < file.size /\ file.size < RecommendedMax])

validate_audio_file(b, file) ==
    CASE b = "edge" -> voice_validate_audio_file(file)
      [] b = "index" -> local_validate_audio_file(file)
      [] b = "coqui" -> coqui_validate_audio_file(file)

NoValidation == [phase |-> "none", b |-> "", file |-> NoFile, result |-> NoResult]

\* The file send_file opens: the request whose model call wrote it (0 if
\* there is no file) and whether another request's model call is writing it.
NoSent == [owner |-> 0, writing |-> FALSE]

\* body is the validation result the validate-audio endpoint sends back,
\* engines the listing GET /api/engines sends back, health the
\* <engine>_loaded flags GET /api/health sends back.
NoHealth == [b \in Backends |-> FALSE]

IdleJob ==
    [pc |-> "idle", rid |-> 0, ep |-> "", req |-> NoReq, staged |-> <<>>,
     b |-> "", conv |-> 0, op |-> "", status |-> 0, err |-> "", log |-> <<>>,
     obs |-> <<>>, body |-> NoResult, engines |-> [list |-> <<>>, total |-> 0],
     sent |-> NoSent, health |-> NoHealth]

\* spk and emo tell whether the file at the method's first and second path
\* argument exists; missing is the path argument a raised error names.
NoCall ==
    [phase |-> "none", op |-> "", available |-> FALSE, spk |-> FALSE,
     emo |-> FALSE, intensity |-> 0, vec |-> <<>>, err |-> "",
     events |-> <<>>, model |-> FALSE, alpha |-> 0, emo_vector |-> <<>>,
     missing |-> 0, voice_name |-> "", available_voices |-> {}, voice |-> "",
     voices |-> <<>>, grouped |-> <<>>, total |-> 0]

(***************************************************************************)
(* The converters.  Each synthesis method is the part that runs before the *)
(* underlying model is called: it either raises (err) or reaches the model *)
(* (model = TRUE) with the arguments it hands over.  events lists, in      *)
(* order, the os.path.exists probes and the model call.                    *)
(***************************************************************************)
Raised(kind, events) ==
    [err |-> kind, events |-> events, model |-> FALSE, alpha |-> 0,
     emo_vector |-> <<>>, missing |-> 0, voice |-> ""]
Reached(events, alpha, v) ==
    [err |-> "", events |-> Append(events, "model"), model |-> TRUE,
     alpha |-> alpha, emo_vector |-> v, missing |-> 0, voice |-> ""]
\* raise FileNotFoundError(f"... not found: {path}") for the i-th path argument,
\* after the os.path.exists probes of the arguments 1..i
NotFound(i) ==
    [Raised("ReferenceNotFound", [k \in 1..i |-> "probe"]) EXCEPT !.missing = i]

\* A clamp that bounds its argument from above only.
clamp_above(x) == Min(One, x)

\* max(0.0, min(1.0, x))
clamp(x) == Max(0, Min(One, x))

\* IndexTTSConverter.clone_voice
index_clone_voice(is_available, ref_exists) ==
    IF ~is_available THEN Raised("EngineUnavailable", <<>>)
    ELSE IF ~ref_exists THEN NotFound(1)
    ELSE Reached(<<"probe">>, 0, <<>>)

\* IndexTTSConverter.synthesize_with_emotion_audio
synthesize_with_emotion_audio(is_available, spk_exists, emo_exists, intensity) ==
    IF ~is_available THEN Raised("EngineUnavailable", <<>>)
    ELSE IF ~spk_exists THEN NotFound(1)
    ELSE IF ~emo_exists THEN NotFound(2)
    ELSE Reached(<<"probe", "probe">>, clamp(intensity), <<>>)

\* IndexTTSConverter.synthesize_with_emotion_vector
synthesize_with_emotion_vector(is_available, spk_exists, emotion_vector) ==
    IF ~is_available THEN Raised("EngineUnavailable", <<>>)
    ELSE IF ~spk_exists THEN NotFound(1)
    ELSE IF Len(emotion_vector) # EmotionDim
         THEN Raised("InvalidDimension", <<"probe">>)
    ELSE Reached(<<"probe">>, 0,
                 [i \in 1..Len(emotion_vector) |-> clamp(emotion_vector[i])])

\* A synthesize that loads the model when it finds it unavailable.
coqui_synthesize_lazy(is_available) ==
    IF ~is_available THEN Reached(<<"init">>, 0, <<>>)
    ELSE Reached(<<>>, 0, <<>>)

\* CoquiTTSConverter.synthesize
coqui_synthesize_op(is_available) ==
    IF ~is_available THEN Raised("EngineUnavailable", <<>>)
    ELSE Reached(<<>>, 0, <<>>)

\* CoquiTTSConverter.clone_voice
coqui_clone_voice_op(is_available, speaker_exists) ==
    IF ~is_available THEN Raised("EngineUnavailable", <<>>)
    ELSE IF ~speaker_exists THEN NotFound(1)
    ELSE Reached(<<"probe">>, 0, <<>>)

\* A convert_voice that probes its source file only.
convert_voice_source_only(is_available, source_exists, target_exists) ==
    IF ~is_available THEN Raised("EngineUnavailable", <<>>)
    ELSE IF ~source_exists THEN NotFound(1)
    ELSE Reached(<<"probe">>, 0, <<>>)

\* CoquiTTSConverter.convert_voice
coqui_convert_voice_op(is_available, source_exists, target_exists) ==
    IF ~is_available THEN Raised("EngineUnavailable", <<>>)
    ELSE IF ~source_exists THEN NotFound(1)
    ELSE IF ~target_exists THEN NotFound(2)
    ELSE Reached(<<"probe", "probe">>, 0, <<>>)

\* VoiceConverter.text_to_speech: an unknown voice is replaced, never refused.
edge_text_to_speech == Reached(<<>>, 0, <<>>)

\* The fallback list of VoiceConverter._load_voices, and lists the service may
\* give (the names that contain 'Neural').
FallbackVoices == {"en-US-AriaNeural", "en-US-GuyNeural", "en-GB-SoniaNeural"}
LoadedVoices ==
    {FallbackVoices, {"en-US-AriaNeural", "de-DE-KatjaNeural"},
     {"de-DE-KatjaNeural"}, {}}

\* A text_to_speech that hands over the voice name as it came.
voice_as_given(available_voices, voice_name) == voice_name

\* "if voice_name not in valid_voices: voice_name = 'en-US-AriaNeural'"
validated_voice(available_voices, voice_name) ==
    IF voice_name \notin available_voices THEN "en-US-AriaNeural"
    ELSE voice_name

\* "grouped = {}": a dictionary with no key
EmptyDict == [locale \in {} |-> <<>>]

\* The loop of get_voices: the voice is appended to the list of its locale,
\* which is created empty if the locale is not yet a key.
RECURSIVE group_voices(_, _)
group_voices(grouped, voices) ==
    IF voices = <<>> THEN grouped
    ELSE LET voice == Head(voices)
             locale == voice.locale
             created == IF locale \notin DOMAIN grouped
                        THEN [l \in DOMAIN grouped \cup {locale} |->
                                IF l = locale THEN <<>> ELSE grouped[l]]
                        ELSE grouped
         IN  group_voices([created EXCEPT ![locale] = Append(@, voice)],
                          Tail(voices))

\* A grouping that keeps, for each locale, only the voice listed last.
latest_by_locale(voices) ==
    [locale \in {voices[i].locale : i \in 1..Len(voices)} |->
        LET last == CHOOSE i \in 1..Len(voices) :
                        /\ voices[i].locale = locale
                        /\ \A k \in (i + 1)..Len(voices) :
                              voices[k].locale # locale
        IN  <<voices[last]>>]

\* 'grouped' of the body get_voices returns
grouped_by_locale(voices) == group_voices(EmptyDict, voices)

\* VoiceConverter.text_to_speech up to edge_tts.Communicate(text, voice_name)
voice_text_to_speech(available_voices, voice_name) ==
    [edge_text_to_speech EXCEPT
        !.voice = validated_voice(available_voices, voice_name)]

(***************************************************************************)
(* The CoquiTTSConverter object.  tts is the name of the model whose handle *)
(* the object holds, "None" if it holds none.  load_error tells whether the *)
(* latest initialize_model raised.  torch and cuda are the process's       *)
(* environment: whether torch and TTS can be imported, and whether         *)
(* torch.cuda.is_available().                                              *)
(***************************************************************************)
XTTS_v2 == "tts_models/multilingual/multi-dataset/xtts_v2"
CoquiModels ==
    {XTTS_v2, "tts_models/en/ljspeech/vits",
     "voice_conversion_models/multilingual/vctk/freevc24"}

NoConverter ==
    [model_name |-> "", tts |-> "None", is_available |-> FALSE,
     device |-> "cpu", load_error |-> FALSE, torch |-> FALSE, cuda |-> FALSE]

Environments ==
    {[torch |-> FALSE, cuda |-> FALSE], [torch |-> TRUE, cuda |-> FALSE],
     [torch |-> TRUE, cuda |-> TRUE]}

\* CoquiTTSConverter._initialize_model: the imports may raise; then the
\* device is set; self.tts is bound only if TTS(...).to(device) returned,
\* otherwise the method raises.
initialize_model(self, loads) ==
    IF ~self.torch THEN [self EXCEPT !.load_error = TRUE]
    ELSE LET detected ==
                 [self EXCEPT !.device = IF self.cuda THEN "cuda" ELSE "cpu"]
         IN  IF loads
             THEN [detected EXCEPT !.tts = self.model_name, !.load_error = FALSE]
             ELSE [detected EXCEPT !.load_error = TRUE]

\* CoquiTTSConverter.__init__: an exception of the load is caught and logged.
CoquiTTSConverter(model_name, env, loads) ==
    LET self == initialize_model(
                    [NoConverter EXCEPT !.model_name = model_name,
                                        !.torch = env.torch, !.cuda = env.cuda],
                    loads)
    IN  IF self.load_error THEN self ELSE [self EXCEPT !.is_available = TRUE]

\* CoquiTTSConverter.switch_model: the name is set, then the model is loaded;
\* an exception of the load is logged and raised again.
switch_model(self, model_name, loads) ==
    initialize_model([self EXCEPT !.model_name = model_name], loads)

\* CoquiTTSConverter.is_model_available, IndexTTSConverter.is_model_available
is_available_of(self) == self.is_available

(***************************************************************************)
(* The singletons.  A constructor catches every exception of the model     *)
(* load and records the outcome in is_available; VoiceConverter falls back *)
(* to a static voice list, so it is always usable.                         *)
(***************************************************************************)
\* An instance that reports its model available whatever the load did.
always_available(b) == TRUE

is_model_available(b) == b = "edge" \/ installed[b]

\* A get_*_converter that constructs whatever the singleton holds.
IsNoneUnchecked(b) == TRUE

\* "if <singleton> is None" of the three get_*_converter functions
IsNone(b) == singleton[b] = 0

(***************************************************************************)
(* Validation of the request fields, in the order of the handlers.         *)
(***************************************************************************)
\* "not text or len(text.strip()) == 0"
text_is_empty(text) == ~Truthy(text) \/ len(strip(text)) = 0
\* "len(text) > 5000"
text_too_long(text) == len(text) > MaxTextLen
\* "if not text" of the Coqui handlers
not_text(text) == ~Truthy(text)
\* "<file>.filename == ''"
no_file_selected(file) == file.name = <<"">>

text_to_speech_reject(text, voice) ==
    IF ~text.present THEN "InvalidInput"
    ELSE IF ~voice.present THEN "InvalidInput"
    ELSE IF text_is_empty(text) THEN "InvalidInput"
    ELSE IF text_too_long(text) THEN "InvalidInput"
    ELSE ""

validate_audio_reject(file) ==
    IF ~file.present THEN "InvalidInput"
    ELSE IF no_file_selected(file) THEN "InvalidFile"
    ELSE IF ~allowed_file(file.name) THEN "InvalidFile"
    ELSE ""

index_tts_clone_voice_reject(text, file) ==
    IF ~text.present THEN "InvalidInput"
    ELSE IF ~file.present THEN "InvalidInput"
    ELSE IF text_is_empty(text) THEN "InvalidInput"
    ELSE IF text_too_long(text) THEN "InvalidInput"
    ELSE IF no_file_selected(file) THEN "InvalidFile"
    ELSE IF ~allowed_file(file.name) THEN "InvalidFile"
    ELSE ""

index_tts_synthesize_emotion_reject(text, file) ==
    IF ~text.present THEN "InvalidInput"
    ELSE IF ~file.present THEN "InvalidInput"
    ELSE IF text_is_empty(text) THEN "InvalidInput"
    ELSE IF no_file_selected(file) THEN "InvalidFile"
    ELSE IF ~allowed_file(file.name) THEN "InvalidFile"
    ELSE ""

coqui_synthesize_reject(text) ==
    IF not_text(text) THEN "InvalidInput" ELSE ""

coqui_clone_voice_reject(text, file) ==
    IF not_text(text) THEN "InvalidInput"
    ELSE IF ~file.present THEN "InvalidInput"
    ELSE IF no_file_selected(file) THEN "InvalidFile"
    ELSE IF ~allowed_file(file.name) THEN "InvalidFile"
    ELSE ""

coqui_convert_voice_reject(source, target) ==
    IF ~source.present THEN "InvalidInput"
    ELSE IF no_file_selected(source) THEN "InvalidFile"
    ELSE IF ~target.present THEN "InvalidInput"
    ELSE IF no_file_selected(target) THEN "InvalidFile"
    ELSE IF ~allowed_file(source.name) \/ ~allowed_file(target.name)
         THEN "InvalidFile"
    ELSE ""

\* The branch index_tts_synthesize_emotion takes after the availability check.
EmotionBranch(req) ==
    IF req.mode = "audio" /\ req.emo.present
        THEN "synthesize_with_emotion_audio"
    ELSE IF req.mode = "vector" /\ req.vec.present
        THEN "synthesize_with_emotion_vector"
    ELSE "clone_voice"

\* float(request.form.get('emotion_intensity', 1.0))
float(intensity) == IF intensity.present THEN intensity.val ELSE One

\* os.urandom(8).hex(): a value no other draw gives (k-th draw of request r).
urandom(r, k) == 3 * (r - 1) + k

(***************************************************************************)
(* Steps of a handler                                                      *)
(***************************************************************************)
NewJob(ep, req) == [IdleJob EXCEPT !.rid = nextId, !.ep = ep, !.req = req]
Answer(jb, status, err) ==
    [jb EXCEPT !.pc = "done", !.status = status, !.err = err]
\* <file>.save(path) of every path, then on to the singleton access
Staged(jb, paths, b) ==
    [jb EXCEPT !.pc = "get", !.b = b, !.staged = paths,
               !.log = [i \in 1..Len(paths) |-> "stage"]]

RECURSIVE save_all(_, _, _, _)
save_all(d, paths, r, n) ==
    IF paths = <<>> THEN d
    ELSE save_all(save(d, Head(paths), r, n), Tail(paths), r, n)

\* The pool hands an arriving request to its first free thread.
Arrives(j) ==
    /\ job[j].pc = "idle"
    /\ \A k \in 1..(j - 1) : job[k].pc # "idle"
    /\ nextId <= MaxRequests

\* One handler up to its singleton access: the fields are validated and, if
\* none is refused, the uploads are saved.
Begin(j, ep, req, reject, paths, b) ==
    /\ job' = [job EXCEPT ![j] =
                 IF reject # "" THEN Answer(NewJob(ep, req), 400, reject)
                 ELSE Staged(NewJob(ep, req), paths, b)]
    /\ disk' = IF reject # "" THEN disk
               ELSE save_all(disk, paths, nextId, req.size)
    /\ nextId' = nextId + 1
    /\ UNCHANGED <<singleton, constructed, installed, call, converter,
                 validation, outputs>>

text_to_speech(j) ==
    /\ Arrives(j)
    /\ \E text \in TextInputs, voice \in VoiceInputs :
         Begin(j, "text_to_speech",
               [NoReq EXCEPT !.text = text, !.voice = voice],
               text_to_speech_reject(text, voice), <<>>, "edge")

validate_audio(j) ==
    /\ Arrives(j)
    /\ \E file \in Uploads, n \in UploadSizes :
         /\ validate_audio_reject(file) # "" => n = 5000
         /\ Begin(j, "validate_audio", [NoReq EXCEPT !.f1 = file, !.size = n],
                  validate_audio_reject(file),
                  <<NamedPath("temp_", secure_filename(file.name))>>, "edge")

index_tts_clone_voice(j) ==
    /\ Arrives(j)
    /\ \E text \in TextInputs, file \in Uploads :
         Begin(j, "index_tts_clone_voice",
               [NoReq EXCEPT !.text = text, !.f1 = file],
               index_tts_clone_voice_reject(text, file),
               <<NamedPath("ref_", secure_filename(file.name))>>, "index")

EmotionUploads ==
    {[present |-> TRUE, name |-> n] : n \in {<<"a", "txt">>, <<"a", "wav">>}}

\* The fields of the emotion branches are read only after the availability
\* check; a field the chosen mode does not read is left out of the request.
EmotionRequests ==
    {[NoReq EXCEPT !.mode = "none"], [NoReq EXCEPT !.mode = "audio"],
     [NoReq EXCEPT !.mode = "vector"]}
    \cup {[NoReq EXCEPT !.mode = "audio", !.emo = e, !.intensity = i] :
            e \in EmotionUploads, i \in IntensityInputs}
    \cup {[NoReq EXCEPT !.mode = "vector", !.vec = v] :
            v \in VectorInputs \ {NoVector}}

index_tts_synthesize_emotion(j) ==
    /\ Arrives(j)
    /\ \E text \in TextInputs, file \in Uploads, r \in EmotionRequests :
         /\ index_tts_synthesize_emotion_reject(text, file) # ""
               => r = [NoReq EXCEPT !.mode = "none"]
         /\ Begin(j, "index_tts_synthesize_emotion",
                  [r EXCEPT !.text = text, !.f1 = file],
                  index_tts_synthesize_emotion_reject(text, file),
                  <<NamedPath("spk_", secure_filename(file.name))>>, "index")

coqui_synthesize(j) ==
    /\ Arrives(j)
    /\ \E text \in TextInputs :
         Begin(j, "coqui_synthesize", [NoReq EXCEPT !.text = text],
               coqui_synthesize_reject(text), <<>>, "coqui")

coqui_clone_voice(j) ==
    /\ Arrives(j)
    /\ \E text \in TextInputs, file \in Uploads :
         Begin(j, "coqui_clone_voice",
               [NoReq EXCEPT !.text = text, !.f1 = file],
               coqui_clone_voice_reject(text, file),
               <<RandomPath("speaker_", urandom(nextId, 1))>>, "coqui")

coqui_convert_voice(j) ==
    /\ Arrives(j)
    /\ \E source \in Uploads, target \in Uploads :
         Begin(j, "coqui_convert_voice",
               [NoReq EXCEPT !.f1 = source, !.f2 = target],
               coqui_convert_voice_reject(source, target),
               <<RandomPath("source_", urandom(nextId, 1)),
                 RandomPath("target_", urandom(nextId, 2))>>, "coqui")

get_engines(j) ==
    /\ Arrives(j)
    /\ Begin(j, "get_engines", NoReq, "", <<>>, "index")

get_emotions(j) ==
    /\ Arrives(j)
    /\ Begin(j, "get_emotions", NoReq, "", <<>>, "index")

\* A health report that counts an engine as loaded only if its model is
\* available.
loaded_if_available(b) == singleton[b] # 0 /\ is_model_available(b)

\* "<singleton> is not None" of health_check
is_not_None(b) == singleton[b] # 0

\* GET /api/health: the three module-level names are read, nothing is written.
health_check(j) ==
    /\ Arrives(j)
    /\ job' = [job EXCEPT ![j] =
                 Answer([NewJob("health_check", NoReq) EXCEPT
                             !.health = [b \in Backends |-> is_not_None(b)]],
                        200, "")]
    /\ nextId' = nextId + 1
    /\ UNCHANGED <<singleton, constructed, installed, disk, call, converter,
                   validation, outputs>>

\* get_voice_converter, get_index_tts_converter, get_coqui_tts_converter:
\* the test "if <singleton> is None".
get_converter(j) ==
    /\ job[j].pc = "get"
    /\ job' = [job EXCEPT ![j].pc =
                 IF IsNone(job[j].b) THEN "construct" ELSE "ret"]
    /\ UNCHANGED <<singleton, constructed, installed, disk, nextId, call, converter,
                 validation, outputs>>

\* The constructor runs and the module-level name is bound to the new instance.
Construct(j) ==
    /\ job[j].pc = "construct"
    /\ constructed' = [constructed EXCEPT ![job[j].b] = @ + 1]
    /\ singleton' = [singleton EXCEPT ![job[j].b] = constructed[job[j].b] + 1]
    /\ job' = [job EXCEPT ![j].pc = "ret",
                          ![j].log = Append(@, "construct")]
    /\ UNCHANGED <<installed, disk, nextId, call, converter,
                 validation, outputs>>

SynthesisEndpoints ==
    {"index_tts_clone_voice", "index_tts_synthesize_emotion",
     "coqui_synthesize", "coqui_clone_voice", "coqui_convert_voice"}

\* A listing that leaves out the engines that are not available.
available_engines(index_available, coqui_available) ==
    LET list == <<[id |-> "edge-tts", available |-> TRUE]>>
                \o (IF index_available
                    THEN <<[id |-> "index-tts2", available |-> TRUE]>>
                    ELSE <<>>)
                \o (IF coqui_available
                    THEN <<[id |-> "coqui-tts", available |-> TRUE]>>
                    ELSE <<>>)
    IN  [list |-> list, total |-> Len(list)]

\* The body get_engines returns: {'engines': engines, 'total': len(engines)}
engines(index_available, coqui_available) ==
    LET list == <<[id |-> "edge-tts", available |-> TRUE],
                  [id |-> "index-tts2", available |-> index_available],
                  [id |-> "coqui-tts", available |-> coqui_available]>>
    IN  [list |-> list, total |-> Len(list)]

\* What a handler does with the converter it got, up to the converter call.
AfterGet(jb) ==
    LET available == is_model_available(jb.b)
        seen == [jb EXCEPT !.obs = Append(@, [b |-> jb.b, available |-> available])]
    IN
    CASE jb.ep = "get_engines" ->
           IF jb.b = "index" THEN [seen EXCEPT !.pc = "get", !.b = "coqui"]
           ELSE Answer([seen EXCEPT !.engines =
                            engines(seen.obs[1].available, seen.obs[2].available)],
                       200, "")
      [] jb.ep = "get_emotions" -> Answer(jb, 200, "")
      [] jb.ep = "validate_audio" -> [jb EXCEPT !.pc = "respond"]
      [] jb.ep = "text_to_speech" -> [jb EXCEPT !.pc = "call"]
      [] jb.ep \in SynthesisEndpoints ->
           IF ~available THEN Answer(seen, 503, "EngineUnavailable")
           ELSE IF jb.ep = "index_tts_synthesize_emotion"
                   /\ EmotionBranch(jb.req) = "synthesize_with_emotion_audio"
           THEN LET emo_path ==
                      NamedPath("emo_", secure_filename(jb.req.emo.name))
                    saved == [seen EXCEPT !.staged = Append(@, emo_path),
                                          !.log = Append(@, "stage")]
                IN  IF ~jb.req.intensity.numeric
                    THEN Answer(saved, 500, "ValueError")
                    ELSE [saved EXCEPT !.pc = "call"]
           ELSE [seen EXCEPT !.pc = "call"]

\* "return <singleton>", the availability check and what follows it
Return(j) ==
    /\ job[j].pc = "ret"
    /\ LET jb == AfterGet([job[j] EXCEPT !.conv = singleton[job[j].b]])
       IN /\ job' = [job EXCEPT ![j] = jb]
          /\ disk' = IF Len(jb.staged) > Len(job[j].staged)
                     THEN save(disk, jb.staged[Len(jb.staged)], jb.rid, 0)
                     ELSE disk
    /\ UNCHANGED <<singleton, constructed, installed, nextId, call, converter,
                 validation, outputs>>

\* The converter method the handler calls, up to the underlying model.
Operation(jb) ==
    CASE jb.ep = "text_to_speech" -> "text_to_speech"
      [] jb.ep = "index_tts_clone_voice" -> "clone_voice"
      [] jb.ep = "index_tts_synthesize_emotion" -> EmotionBranch(jb.req)
      [] jb.ep = "coqui_synthesize" -> "synthesize"
      [] jb.ep = "coqui_clone_voice" -> "clone_voice"
      [] jb.ep = "coqui_convert_voice" -> "convert_voice"

Invoke(jb, d) ==
    LET available == is_model_available(jb.b)
        there(i) == exists(d, jb.staged[i])
    IN
    CASE jb.ep = "text_to_speech" -> edge_text_to_speech
      [] jb.ep = "index_tts_clone_voice" -> index_clone_voice(available, there(1))
      [] jb.ep = "index_tts_synthesize_emotion" ->
           IF EmotionBranch(jb.req) = "synthesize_with_emotion_audio"
           THEN synthesize_with_emotion_audio(available, there(1), there(2),
                                              float(jb.req.intensity))
           ELSE IF EmotionBranch(jb.req) = "synthesize_with_emotion_vector"
           THEN synthesize_with_emotion_vector(available, there(1),
                                               jb.req.vec.elems)
           ELSE index_clone_voice(available, there(1))
      [] jb.ep = "coqui_synthesize" -> coqui_synthesize_op(available)
      [] jb.ep = "coqui_clone_voice" -> coqui_clone_voice_op(available, there(1))
      [] jb.ep = "coqui_convert_voice" ->
           coqui_convert_voice_op(available, there(1), there(2))

\* The handler calls the converter: the method's checks run and the model starts,
\* or the method raises and the handler's except clause answers 500.
Call(j) ==
    /\ job[j].pc = "call"
    /\ LET r == Invoke(job[j], disk)
           jb == [job[j] EXCEPT !.op = Operation(job[j]),
                                !.log = @ \o r.events]
       IN job' = [job EXCEPT ![j] =
                    IF r.err # "" THEN Answer(jb, 500, r.err)
                    ELSE [jb EXCEPT !.pc = "inferring"]]
    /\ UNCHANGED <<singleton, constructed, installed, disk, nextId, call, converter,
                 validation, outputs>>

\* The output path of a synthesis handler: a fixed name for the Edge and
\* Index-TTS2 handlers, a random one for the Coqui handlers.
output_path(jb) ==
    CASE jb.ep = "text_to_speech" -> NamedPath("output_tts", <<"", "mp3">>)
      [] jb.ep = "index_tts_clone_voice" ->
           NamedPath("output_index_tts", <<"", "wav">>)
      [] jb.ep = "index_tts_synthesize_emotion" ->
           NamedPath("output_emotion", <<"", "wav">>)
      [] jb.ep = "coqui_synthesize" ->
           RandomPath("coqui_output_", urandom(jb.rid, 3))
      [] jb.ep = "coqui_clone_voice" ->
           RandomPath("coqui_cloned_", urandom(jb.rid, 3))
      [] jb.ep = "coqui_convert_voice" ->
           RandomPath("coqui_converted_", urandom(jb.rid, 3))

\* The file send_file(output_path) opens.
send_file(jb) ==
    LET p == output_path(jb) IN
    [owner |-> IF exists(outputs, p)
               THEN (CHOOSE e \in outputs : e.path = p).owner ELSE 0,
     writing |-> \E k \in Threads :
                    /\ job[k].pc = "inferring"
                    /\ job[k].rid # jb.rid
                    /\ output_path(job[k]) = p]

\* A handler that calls the converter again when the call has failed.
retry(jb) == [jb EXCEPT !.pc = "call"]

\* The converter logs the exception and raises it again; the handler's except
\* clause answers 500.
except_clause(jb) == Answer(jb, 500, "SynthesisFailure")

\* The underlying model returns, or raises.
InferEnd(j) ==
    /\ job[j].pc = "inferring"
    /\ \E ok \in BOOLEAN :
         /\ job' = [job EXCEPT ![j] =
                      IF ok THEN [job[j] EXCEPT !.pc = "respond"]
                      ELSE except_clause(job[j])]
         /\ outputs' = IF ok
                       THEN save(outputs, output_path(job[j]), job[j].rid, 0)
                       ELSE outputs
    /\ UNCHANGED <<singleton, constructed, installed, disk, nextId, call, converter,
                 validation>>

\* os.remove(p) of each path in turn; the first missing one raises.  n is
\* the number of files removed.
RECURSIVE os_remove(_, _)
os_remove(d, paths) ==
    IF paths = <<>> THEN [disk |-> d, ok |-> TRUE, n |-> 0]
    ELSE IF ~exists(d, Head(paths)) THEN [disk |-> d, ok |-> FALSE, n |-> 0]
    ELSE LET r == os_remove(remove(d, Head(paths)), Tail(paths))
         IN  [r EXCEPT !.n = @ + 1]

\* "if os.path.exists(p): os.remove(p)" of each path
RECURSIVE remove_if_exists(_, _)
remove_if_exists(d, paths) ==
    IF paths = <<>> THEN [disk |-> d, ok |-> TRUE, n |-> 0]
    ELSE LET r == remove_if_exists(remove(d, Head(paths)), Tail(paths))
         IN  IF exists(d, Head(paths)) THEN [r EXCEPT !.n = @ + 1] ELSE r

Reverse(s) == [i \in 1..Len(s) |-> s[Len(s) + 1 - i]]

\* The clean-up a handler runs after the converter returned.
CleanUp(jb, d) ==
    CASE jb.ep \in {"validate_audio", "index_tts_clone_voice"} ->
           os_remove(d, jb.staged)
      [] jb.ep = "index_tts_synthesize_emotion" ->
           os_remove(d, Reverse(jb.staged))
      [] jb.ep \in {"coqui_clone_voice", "coqui_convert_voice"} ->
           remove_if_exists(d, jb.staged)
      [] OTHER -> [disk |-> d, ok |-> TRUE, n |-> 0]

\* The handler's order: the n staged inputs are removed, then send_file (or
\* jsonify) builds the response that is returned.
remove_then_send(log, n) == log \o [i \in 1..n |-> "remove"] \o <<"send">>

\* The staged inputs are removed and the result is sent; an os.remove that
\* raises ends in the handler's except clause.
Respond(j) ==
    /\ job[j].pc = "respond"
    /\ LET r == CleanUp(job[j], disk)
           body == IF job[j].ep = "validate_audio"
                   THEN validate_audio_file("edge", FileAt(disk, job[j].staged[1]))
                   ELSE NoResult
       IN /\ disk' = r.disk
          /\ job' = [job EXCEPT ![j] =
                       IF r.ok
                       THEN Answer([job[j] EXCEPT
                                      !.log = remove_then_send(@, r.n),
                                      !.body = body,
                                      !.sent = IF job[j].op = "" THEN NoSent
                                               ELSE send_file(job[j])],
                                   200, "")
                       ELSE Answer(job[j], 500, "FileNotFoundError")]
    /\ UNCHANGED <<singleton, constructed, installed, nextId, call, converter,
                 validation, outputs>>

\* The response is out; the thread is free for the next request.
Finish(j) ==
    /\ job[j].pc = "done"
    /\ job' = [job EXCEPT ![j] = IdleJob]
    /\ UNCHANGED <<singleton, constructed, installed, disk, nextId, call, converter,
                 validation, outputs>>

Step(j) ==
    \/ text_to_speech(j)
    \/ validate_audio(j)
    \/ index_tts_clone_voice(j)
    \/ index_tts_synthesize_emotion(j)
    \/ coqui_synthesize(j)
    \/ coqui_clone_voice(j)
    \/ coqui_convert_voice(j)
    \/ get_engines(j)
    \/ get_emotions(j)
    \/ health_check(j)
    \/ get_converter(j)
    \/ Construct(j)
    \/ Return(j)
    \/ Call(j)
    \/ InferEnd(j)
    \/ Respond(j)
    \/ Finish(j)

Init ==
    /\ job = [j \in Threads |-> IdleJob]
    /\ singleton = [b \in Backends |-> 0]
    /\ constructed = [b \in Backends |-> 0]
    /\ installed \in [LocalBackends -> BOOLEAN]
    /\ disk = {}
    /\ nextId = 1
    /\ call = NoCall
    /\ converter = NoConverter
    /\ validation = NoValidation
    /\ outputs = {}

Next == \E j \in Threads : Step(j)

Spec == Init /\ [][Next]_vars

\* One request at a time: a thread steps only while every other thread is idle.
Alone(j) == \A k \in Threads \ {j} : job[k].pc = "idle"

SeqNext == \E j \in Threads : Alone(j) /\ Step(j)

SeqSpec == Init /\ [][SeqNext]_vars

(***************************************************************************)
(* UnitSpec: an IndexTTSConverter method is called directly, on a          *)
(* converter that is available or not, with reference files that exist or  *)
(* not, and with any intensity or emotion vector.                          *)
(***************************************************************************)
IntensityRange == (One - MaxIntensity)..MaxIntensity

\* Vectors of 7, 8 and 9 elements: every element y but the k-th, which is x.
UnitVectors ==
    {[i \in 1..n |-> IF i = k THEN x ELSE y] :
        n \in {EmotionDim - 1, EmotionDim, EmotionDim + 1},
        k \in 1..(EmotionDim + 1), x \in IntensityRange, y \in {0, One}}

UnitCalls ==
    {[NoCall EXCEPT !.phase = "input", !.op = "clone_voice",
                    !.available = a, !.spk = s] : a, s \in BOOLEAN}
    \cup
    {[NoCall EXCEPT !.phase = "input", !.op = "synthesize_with_emotion_audio",
                    !.available = a, !.spk = s, !.emo = e, !.intensity = x] :
        a, s, e \in BOOLEAN, x \in IntensityRange}
    \cup
    {[NoCall EXCEPT !.phase = "input", !.op = "synthesize_with_emotion_vector",
                    !.available = a, !.spk = s, !.vec = v] :
        a, s \in BOOLEAN, v \in UnitVectors}

\* Calls of the CoquiTTSConverter synthesis methods; available is read from
\* the object when the method is entered.
CoquiOps ==
    {"CoquiTTSConverter.synthesize", "CoquiTTSConverter.clone_voice",
     "CoquiTTSConverter.convert_voice"}
IndexOps ==
    {"clone_voice", "synthesize_with_emotion_audio",
     "synthesize_with_emotion_vector"}
CoquiCalls ==
    {[NoCall EXCEPT !.phase = "input", !.op = "CoquiTTSConverter.synthesize"]}
    \cup
    {[NoCall EXCEPT !.phase = "input", !.op = "CoquiTTSConverter.clone_voice",
                    !.spk = s] : s \in BOOLEAN}
    \cup
    {[NoCall EXCEPT !.phase = "input", !.op = "CoquiTTSConverter.convert_voice",
                    !.spk = s, !.emo = t] : s, t \in BOOLEAN}

VoiceNames ==
    {"en-US-AriaNeural", "en-US-GuyNeural", "de-DE-KatjaNeural",
     "nonexistent-voice", ""}
VoiceCalls ==
    {[NoCall EXCEPT !.phase = "input", !.op = "VoiceConverter.text_to_speech",
                    !.available = TRUE, !.voice_name = n,
                    !.available_voices = v] :
        n \in VoiceNames, v \in LoadedVoices}

\* The voice dictionaries _load_voices builds, by their name and locale.
NeuralVoices ==
    {[name |-> "en-US-AriaNeural", locale |-> "en-US"],
     [name |-> "en-US-GuyNeural", locale |-> "en-US"],
     [name |-> "en-GB-SoniaNeural", locale |-> "en-GB"],
     [name |-> "de-DE-KatjaNeural", locale |-> "de-DE"]}
VoiceLists == UNION {[1..n -> NeuralVoices] : n \in 0..MaxVoices}
ListingCalls ==
    {[NoCall EXCEPT !.phase = "input", !.op = "get_voices", !.voices = v] :
        v \in VoiceLists}

\* Files of every size around the validators' bounds, a missing file and one
\* whose size cannot be read.
FileSizes ==
    {0, 5000, MinSize - 1, MinSize, MinSize + 1, 2000000, RecommendedMax - 1,
     RecommendedMax, RecommendedMax + 1, MaxSize - 1, MaxSize, MaxSize + 1}
Files == {NoFile, Unreadable} \cup {File(n) : n \in FileSizes}
ValidationCalls ==
    {[NoValidation EXCEPT !.phase = "input", !.b = b, !.file = f] :
        b \in Backends, f \in Files}

UnitInit ==
    /\ job = [j \in Threads |-> IdleJob]
    /\ singleton = [b \in Backends |-> 0]
    /\ constructed = [b \in Backends |-> 0]
    /\ installed = [b \in LocalBackends |-> FALSE]
    /\ disk = {}
    /\ nextId = 1
    /\ outputs = {}
    /\ \/ /\ call \in UnitCalls \cup VoiceCalls \cup ListingCalls
          /\ converter = NoConverter
          /\ validation = NoValidation
       \/ /\ call \in CoquiCalls
          /\ converter \in {CoquiTTSConverter(XTTS_v2, env, loads) :
                              env \in Environments, loads \in BOOLEAN}
          /\ validation = NoValidation
       \/ /\ call = NoCall
          /\ converter = NoConverter
          /\ validation \in ValidationCalls

\* The method runs up to the model call, or raises.
Entered(c, r) ==
    [c EXCEPT !.phase = IF r.model THEN "model" ELSE "raised",
                 !.err = r.err, !.events = r.events, !.model = r.model,
                 !.alpha = r.alpha, !.emo_vector = r.emo_vector,
                 !.missing = r.missing, !.voice = r.voice]

CallCloneVoice ==
    /\ call.phase = "input" /\ call.op = "clone_voice"
    /\ call' = Entered(call, index_clone_voice(call.available, call.spk))
    /\ UNCHANGED <<job, singleton, constructed, installed, disk, nextId,
                 converter, validation, outputs>>

CallEmotionAudio ==
    /\ call.phase = "input" /\ call.op = "synthesize_with_emotion_audio"
    /\ call' = Entered(call, synthesize_with_emotion_audio(
                          call.available, call.spk, call.emo, call.intensity))
    /\ UNCHANGED <<job, singleton, constructed, installed, disk, nextId,
                 converter, validation, outputs>>

CallEmotionVector ==
    /\ call.phase = "input" /\ call.op = "synthesize_with_emotion_vector"
    /\ call' = Entered(call, synthesize_with_emotion_vector(
                          call.available, call.spk, call.vec))
    /\ UNCHANGED <<job, singleton, constructed, installed, disk, nextId,
                 converter, validation, outputs>>

\* self.model.infer returns, or raises and the method re-raises.
ModelEnds ==
    /\ call.phase = "model"
    /\ \E ok \in BOOLEAN :
         call' = [call EXCEPT !.phase = IF ok THEN "returned" ELSE "raised",
                              !.err = IF ok THEN "" ELSE "SynthesisFailure"]
    /\ UNCHANGED <<job, singleton, constructed, installed, disk, nextId,
                 converter, validation, outputs>>

\* converter.switch_model(model_name) before the synthesis method is called
SwitchModel ==
    /\ call.phase = "input" /\ call.op \in CoquiOps
    /\ \E model_name \in CoquiModels, loads \in BOOLEAN :
         converter' = switch_model(converter, model_name, loads)
    /\ UNCHANGED <<job, singleton, constructed, installed, disk, nextId, call,
                   validation, outputs>>

CallCoquiSynthesize ==
    /\ call.phase = "input" /\ call.op = "CoquiTTSConverter.synthesize"
    /\ call' = Entered([call EXCEPT !.available = converter.is_available],
                       coqui_synthesize_op(converter.is_available))
    /\ UNCHANGED <<job, singleton, constructed, installed, disk, nextId,
                   converter, validation, outputs>>

CallCoquiCloneVoice ==
    /\ call.phase = "input" /\ call.op = "CoquiTTSConverter.clone_voice"
    /\ call' = Entered([call EXCEPT !.available = converter.is_available],
                       coqui_clone_voice_op(converter.is_available, call.spk))
    /\ UNCHANGED <<job, singleton, constructed, installed, disk, nextId,
                   converter, validation, outputs>>

CallCoquiConvertVoice ==
    /\ call.phase = "input" /\ call.op = "CoquiTTSConverter.convert_voice"
    /\ call' = Entered([call EXCEPT !.available = converter.is_available],
                       coqui_convert_voice_op(converter.is_available,
                                              call.spk, call.emo))
    /\ UNCHANGED <<job, singleton, constructed, installed, disk, nextId,
                   converter, validation, outputs>>

CallTextToSpeech ==
    /\ call.phase = "input" /\ call.op = "VoiceConverter.text_to_speech"
    /\ call' = Entered(call, voice_text_to_speech(call.available_voices,
                                                  call.voice_name))
    /\ UNCHANGED <<job, singleton, constructed, installed, disk, nextId,
                   converter, validation, outputs>>

\* get_voices on the list vc.get_available_voices() returned
get_voices ==
    /\ call.phase = "input" /\ call.op = "get_voices"
    /\ call' = [call EXCEPT !.phase = "returned",
                            !.grouped = grouped_by_locale(call.voices),
                            !.total = Len(call.voices)]
    /\ UNCHANGED <<job, singleton, constructed, installed, disk, nextId,
                   converter, validation, outputs>>

\* <converter>.validate_audio_file(audio_path)
ValidateAudioFile ==
    /\ validation.phase = "input"
    /\ validation' =
         [validation EXCEPT
            !.phase = "returned",
            !.result = validate_audio_file(validation.b, validation.file)]
    /\ UNCHANGED <<job, singleton, constructed, installed, disk, nextId, call,
                   converter, outputs>>

UnitNext ==
    \/ CallCloneVoice
    \/ CallEmotionAudio
    \/ CallEmotionVector
    \/ SwitchModel
    \/ CallCoquiSynthesize
    \/ CallCoquiCloneVoice
    \/ CallCoquiConvertVoice
    \/ CallTextToSpeech
    \/ get_voices
    \/ ModelEnds
    \/ ValidateAudioFile

UnitSpec == UnitInit /\ [][UnitNext]_vars

(***************************************************************************)
(* Properties                                                              *)
(***************************************************************************)
InFlight(j) == job[j].pc \notin {"idle", "done"}
Answered(j) == job[j].pc = "done"
StagedSet(j) == {job[j].staged[i] : i \in 1..Len(job[j].staged)}
Logged(j, e) == \E i \in 1..Len(job[j].log) : job[j].log[i] = e

StagingEndpoints ==
    {"validate_audio", "index_tts_clone_voice", "index_tts_synthesize_emotion",
     "coqui_clone_voice", "coqui_convert_voice"}
TextEndpoints ==
    {"text_to_speech", "index_tts_clone_voice", "index_tts_synthesize_emotion",
     "coqui_synthesize", "coqui_clone_voice"}

\* C1: once a request that staged input files is answered, whatever the
\* outcome, none of the files it staged is left in the upload folder.
C1_StagedInputsRemoved ==
    \A j \in Threads :
        (Answered(j) /\ job[j].ep \in StagingEndpoints) =>
            \A p \in StagedSet(j) :
                ~\E e \in disk : e.path = p /\ e.owner = job[j].rid

\* C2: a backend whose model cannot be loaded is constructed once in total,
\* also when two requests race for its first use, and every request that
\* checks it sees available = false.
C2_RacingFirstUseConstructsOnce ==
    \A b \in LocalBackends :
        ~installed[b] =>
            /\ constructed[b] <= 1
            /\ \A j \in Threads : \A i \in 1..Len(job[j].obs) :
                  job[j].obs[i].b = b => ~job[j].obs[i].available

\* C3: with requests handled one after the other, each backend's constructor
\* runs at most once: the singleton is set exactly when the constructor has
\* run, a thread constructs only if construction was never attempted, and a
\* converter handed to a request is the one instance ever built.
C3_ConstructedAtMostOnce ==
    /\ \A b \in Backends :
          /\ constructed[b] <= 1
          /\ (singleton[b] = 0) <=> (constructed[b] = 0)
    /\ \A j \in Threads :
          /\ job[j].pc = "construct" => constructed[job[j].b] = 0
          /\ job[j].conv <= 1

\* A second request reaches a backend whose construction has failed, and is
\* handed the instance the first request built.
C3_Witness ==
    \E j \in Threads :
        /\ job[j].rid = 2
        /\ job[j].b \in LocalBackends
        /\ ~installed[job[j].b]
        /\ job[j].conv = 1
        /\ ~Logged(j, "construct")

\* C4: no two requests are inside an inference call of the same backend
\* instance at the same time.
C4_InferenceSerialized ==
    \A j, k \in Threads :
        (j # k /\ job[j].pc = "inferring" /\ job[k].pc = "inferring") =>
            ~(job[j].b = job[k].b /\ job[j].conv = job[k].conv)

\* C5: two requests in flight at the same time never have a staged input
\* path in common.
C5_StagedPathsUnique ==
    \A j, k \in Threads :
        (j # k /\ InFlight(j) /\ InFlight(k)) =>
            StagedSet(j) \cap StagedSet(k) = {}

\* C6: a request whose text is longer than 5000 characters never has a
\* synthesis operation invoked and is answered 400.
C6_LongTextRejected ==
    \A j \in Threads :
        (job[j].ep \in TextEndpoints /\ len(job[j].req.text) > MaxTextLen) =>
            /\ job[j].op = ""
            /\ Answered(j) => job[j].status = 400

\* C7: a request whose text is empty once its whitespace is trimmed never has
\* a synthesis operation invoked and is answered with a client error.
C7_BlankTextRejected ==
    \A j \in Threads :
        (/\ job[j].ep \in TextEndpoints
         /\ job[j].req.text.present
         /\ len(strip(job[j].req.text)) = 0) =>
            /\ job[j].op = ""
            /\ Answered(j) => job[j].status = 400

\* The request lacks a field its endpoint requires, or carries it empty.
Blank(field) == ~field.present \/ no_file_selected(field)
LacksRequiredField(jb) ==
    CASE jb.ep = "text_to_speech" ->
           ~Truthy(jb.req.text) \/ ~jb.req.voice.present \/ jb.req.voice.name = ""
      [] jb.ep = "validate_audio" -> Blank(jb.req.f1)
      [] jb.ep \in {"index_tts_clone_voice", "index_tts_synthesize_emotion",
                    "coqui_clone_voice"} ->
           ~Truthy(jb.req.text) \/ Blank(jb.req.f1)
      [] jb.ep = "coqui_synthesize" -> ~Truthy(jb.req.text)
      [] jb.ep = "coqui_convert_voice" -> Blank(jb.req.f1) \/ Blank(jb.req.f2)
      [] OTHER -> FALSE

\* C8: a request that lacks a required field, or carries it empty, is answered
\* 400 with no file written and no backend constructed or invoked before.
C8_MissingFieldFailsFast ==
    \A j \in Threads :
        (job[j].pc # "idle" /\ LacksRequiredField(job[j])) =>
            /\ job[j].log = <<>>
            /\ Answered(j) => job[j].status = 400

\* C9: emotion-by-vector synthesis on an available converter with a vector
\* whose length is not 8 raises the invalid-dimension error without having
\* probed any file and without calling the model.
C9_DimensionCheckedFirst ==
    (/\ call.op = "synthesize_with_emotion_vector"
     /\ call.phase # "input"
     /\ call.available
     /\ Len(call.vec) # EmotionDim) =>
        /\ call.err = "InvalidDimension"
        /\ call.events = <<>>

\* C10: the intensity and each of the 8 vector elements handed to the model is
\* min(1, max(0, x)) of the input x: 0 below 0, 1 above 1, x itself from 0 to
\* 1; and no value out of that range makes the call raise.
ClampedTo(x, y) ==
    /\ y = Min(One, Max(0, x))
    /\ x < 0 => y = 0
    /\ x > One => y = One
    /\ (0 <= x /\ x <= One) => y = x
C10_IntensitiesClamped ==
    /\ (call.op = "synthesize_with_emotion_audio" /\ call.phase # "input"
        /\ call.available /\ call.spk /\ call.emo) =>
          /\ call.model
          /\ ClampedTo(call.intensity, call.alpha)
    /\ (call.op = "synthesize_with_emotion_vector" /\ call.phase # "input"
        /\ call.available /\ call.spk /\ Len(call.vec) = EmotionDim) =>
          /\ call.model
          /\ Len(call.emo_vector) = EmotionDim
          /\ \A i \in 1..EmotionDim : ClampedTo(call.vec[i], call.emo_vector[i])

\* The model is called with a vector holding an element above 1 and with one
\* holding an element below 0.
C10_Witness ==
    /\ call.op = "synthesize_with_emotion_vector"
    /\ call.phase = "model"
    /\ \E i \in 1..EmotionDim : call.vec[i] < 0 /\ call.emo_vector[i] = 0
    /\ \E i \in 1..EmotionDim : call.vec[i] = One /\ call.emo_vector[i] = One

\* C11: a synthesis method of IndexTTSConverter or CoquiTTSConverter entered
\* on an object whose is_available is false raises the engine-unavailable
\* error: it probes no file, does not initialize the model and does not call
\* it.
C11_UnavailableRaises ==
    (/\ call.op \in IndexOps \cup CoquiOps
     /\ call.phase # "input"
     /\ ~call.available) =>
        /\ call.phase = "raised"
        /\ call.err = "EngineUnavailable"
        /\ call.events = <<>>
        /\ ~call.model

\* convert_voice raised on a converter whose construction failed and whose
\* files both exist; synthesize raised on one that holds a model loaded by a
\* later switch_model.
C11_Witness ==
    /\ call.phase = "raised"
    /\ call.err = "EngineUnavailable"
    /\ \/ call.op = "CoquiTTSConverter.convert_voice" /\ call.spk /\ call.emo
       \/ call.op = "synthesize_with_emotion_vector" /\ call.spk

\* The number of uploads an endpoint stages before it resolves its backend.
UploadFields(ep) ==
    CASE ep = "coqui_synthesize" -> 0
      [] ep = "coqui_convert_voice" -> 2
      [] OTHER -> 1

\* C12: a synthesis request whose resolved backend reports its model
\* unavailable is answered 503 at the availability check: no synthesis
\* operation is invoked, no file is probed, and no file is staged beyond the
\* uploads staged before the backend was resolved.
C12_UnavailableAnswers503 ==
    \A j \in Threads :
        (/\ job[j].ep \in SynthesisEndpoints
         /\ job[j].conv # 0
         /\ ~installed[job[j].b]) =>
            /\ Answered(j)
            /\ job[j].status = 503
            /\ job[j].err = "EngineUnavailable"
            /\ job[j].op = ""
            /\ Len(job[j].staged) = UploadFields(job[j].ep)
            /\ ~Logged(j, "probe") /\ ~Logged(j, "model")

\* An emotion-by-audio request with an emotion reference upload is answered
\* 503 with only its speaker file staged.
C12_Witness ==
    \E j \in Threads :
        /\ job[j].ep = "index_tts_synthesize_emotion"
        /\ job[j].status = 503
        /\ job[j].req.mode = "audio"
        /\ job[j].req.emo.present
        /\ Len(job[j].staged) = 1

\* The number of input file paths a synthesis method takes, and the first of
\* them at which no file exists (0 if every file exists).
PathArgs(op) ==
    CASE op \in {"synthesize_with_emotion_audio",
                 "CoquiTTSConverter.convert_voice"} -> 2
      [] op = "CoquiTTSConverter.synthesize" -> 0
      [] OTHER -> 1
FirstMissing(c) ==
    IF ~c.spk THEN 1
    ELSE IF PathArgs(c.op) = 2 /\ ~c.emo THEN 2
    ELSE 0

\* C13: on an available converter, a method that takes input file paths calls
\* the model only after it has probed every one of them; if a file is missing
\* the method raises reference-not-found naming the first missing path and
\* the model is not called.
C13_ReferencesCheckedFirst ==
    (/\ call.op \in IndexOps \cup CoquiOps
     /\ PathArgs(call.op) > 0
     /\ call.phase # "input"
     /\ call.available) =>
        /\ FirstMissing(call) # 0 =>
              /\ call.err = "ReferenceNotFound"
              /\ call.missing = FirstMissing(call)
              /\ ~call.model
              /\ call.events = [i \in 1..FirstMissing(call) |-> "probe"]
        /\ call.model =>
              /\ FirstMissing(call) = 0
              /\ call.events =
                    [i \in 1..PathArgs(call.op) |-> "probe"] \o <<"model">>

\* convert_voice finds its source file and raises for its target file.
C13_Witness ==
    /\ call.op = "CoquiTTSConverter.convert_voice"
    /\ call.phase = "raised"
    /\ call.spk /\ ~call.emo
    /\ call.err = "ReferenceNotFound"
    /\ call.missing = 2

LocalValidationErrors ==
    {"InvalidInput", "InvalidFile", "ReferenceNotFound", "InvalidDimension"}

\* C14: the status of a failed request follows from the kind of its error: a
\* local validation error is answered 4xx, engine unavailability 503, and
\* only a failure of the underlying model call is answered with another 5xx.
C14_ErrorKindDeterminesStatus ==
    \A j \in Threads :
        Answered(j) =>
            /\ job[j].err \in LocalValidationErrors =>
                  job[j].status \in 400..499
            /\ job[j].err = "EngineUnavailable" => job[j].status = 503
            /\ (job[j].status >= 500 /\ job[j].status # 503) =>
                  job[j].err = "SynthesisFailure"

\* C15: the validate-audio endpoint answers valid = false for an upload
\* smaller than 10 KB or larger than 50 MB, and valid = true with
\* recommended = true for an upload between 10 KB and 5 MB.
C15_EndpointChecksSize ==
    \A j \in Threads :
        (Answered(j) /\ job[j].ep = "validate_audio" /\ job[j].status = 200) =>
            LET n == job[j].req.size IN
            /\ (n < MinSize \/ n > MaxSize) => ~job[j].body.valid
            /\ (MinSize < n /\ n < RecommendedMax) =>
                  /\ job[j].body.valid
                  /\ "recommended" \in job[j].body.keys
                  /\ job[j].body.recommended

\* C16: validate_audio_file of each converter returns for every file, also a
\* missing one and one whose size cannot be read: the result has the key
\* valid; with valid = false it has an error string, with valid = true it
\* has size and path.
C16_ValidatorNeverRaises ==
    validation.phase = "returned" =>
        LET r == validation.result IN
        /\ ~r.raised
        /\ "valid" \in r.keys
        /\ ~r.valid => ("error" \in r.keys /\ r.error # "")
        /\ r.valid => ({"size", "path"} \subseteq r.keys
                       /\ r.size = validation.file.size)

\* os.path.getsize raised inside the Edge validator and the caller got
\* valid = false with the text of the exception.
C16_Witness ==
    /\ validation.phase = "returned"
    /\ validation.b = "edge"
    /\ validation.file = Unreadable
    /\ ~validation.result.valid
    /\ validation.result.error = "OSError"

\* C17: a file is in the upload folder only if the name it was uploaded with
\* is not empty and has an allowed extension, whichever upload field of
\* whichever endpoint it came in.
C17_OnlyAllowedFilesStaged ==
    /\ \A e \in disk :
          e.path.tok = 0 =>
              /\ e.path.name # <<"">>
              /\ allowed_file(e.path.name)
    /\ \A j \in Threads :
          (job[j].staged # <<>> /\ job[j].staged[1].tok # 0) =>
              /\ allowed_file(job[j].req.f1.name)
              /\ Len(job[j].staged) = 2 => allowed_file(job[j].req.f2.name)

\* C18: VoiceConverter.text_to_speech never refuses a voice name: it reaches
\* the synthesis with en-US-AriaNeural if the name is not in the loaded voice
\* set, and with the name itself if it is.
C18_UnknownVoiceFallsBack ==
    (call.op = "VoiceConverter.text_to_speech" /\ call.phase # "input") =>
        /\ call.model
        /\ call.voice_name \notin call.available_voices =>
              call.voice = "en-US-AriaNeural"
        /\ call.voice_name \in call.available_voices =>
              call.voice = call.voice_name

\* An unknown voice is replaced by the default although the default is not in
\* the loaded set either.
C18_Witness ==
    /\ call.op = "VoiceConverter.text_to_speech"
    /\ call.phase = "model"
    /\ call.voice_name = "nonexistent-voice"
    /\ "en-US-AriaNeural" \notin call.available_voices
    /\ call.voice = "en-US-AriaNeural"

\* C19: GET /api/engines is always answered 200 with the three descriptors
\* edge-tts, index-tts2 and coqui-tts and total = 3; a backend whose model
\* could not be loaded is listed with available = false.
C19_EnginesAlwaysListed ==
    \A j \in Threads :
        (job[j].ep = "get_engines" /\ Answered(j)) =>
            LET e == job[j].engines IN
            /\ job[j].status = 200
            /\ e.total = 3
            /\ Len(e.list) = 3
            /\ e.list[1] = [id |-> "edge-tts", available |-> TRUE]
            /\ e.list[2] = [id |-> "index-tts2", available |-> installed["index"]]
            /\ e.list[3] = [id |-> "coqui-tts", available |-> installed["coqui"]]

\* The listing is sent by a request that constructed a backend itself, with
\* neither local model loadable.
C19_Witness ==
    \E j \in Threads :
        /\ job[j].ep = "get_engines"
        /\ Answered(j)
        /\ Logged(j, "construct")
        /\ ~installed["index"] /\ ~installed["coqui"]
        /\ job[j].engines.total = 3

\* C20: is_model_available() of a CoquiTTSConverter returns false in every
\* state in which the load of the model the converter names has failed and
\* that model is not held, whether the load was made by the constructor or
\* by switch_model.
C20_UnavailableAfterFailedLoad ==
    (/\ converter.model_name # ""
     /\ converter.load_error
     /\ converter.tts # converter.model_name) =>
        ~is_available_of(converter)

\* Every a in the log comes before every b in it.
Before(log, a, b) ==
    \A i, k \in 1..Len(log) : (log[i] = a /\ log[k] = b) => i < k

\* C21: a job passes through its states in order: a request answered 400 has
\* staged nothing, every upload is staged before the model is called, the
\* model has returned before the result is sent, and the staged inputs of a
\* dispatched request are removed only after the result was sent.
C21_JobStatesInOrder ==
    \A j \in Threads :
        /\ (Answered(j) /\ job[j].status = 400) => ~Logged(j, "stage")
        /\ Before(job[j].log, "stage", "model")
        /\ Before(job[j].log, "model", "send")
        /\ job[j].op # "" => Before(job[j].log, "send", "remove")

\* The number of times e is in the log.
Count(log, e) == Cardinality({i \in 1..Len(log) : log[i] = e})

\* The operation each emotion_mode asks for.
ModeOperation(mode) ==
    CASE mode = "audio" -> "synthesize_with_emotion_audio"
      [] mode = "vector" -> "synthesize_with_emotion_vector"
      [] mode = "none" -> "clone_voice"

\* C22: the operation the emotional synthesis endpoint invokes is the one of
\* the request's emotion_mode, and the model is called at most once for the
\* request.
C22_OperationMatchesMode ==
    \A j \in Threads :
        (job[j].ep = "index_tts_synthesize_emotion" /\ job[j].op # "") =>
            /\ job[j].op = ModeOperation(job[j].req.mode)
            /\ Count(job[j].log, "model") <= 1

\* C23: within one request the model is called at most once, also when the
\* call fails; a failed call is answered 500 and the request ends there.
C23_NoRetries ==
    \A j \in Threads :
        /\ Count(job[j].log, "model") <= 1
        /\ job[j].err = "SynthesisFailure" =>
              /\ Answered(j)
              /\ job[j].status = 500
              /\ Count(job[j].log, "model") = 1
              /\ ~Logged(j, "send")

\* The model call of a clone-voice request failed and the request was
\* answered 500.
C23_Witness ==
    \E j \in Threads :
        /\ job[j].ep = "index_tts_clone_voice"
        /\ job[j].err = "SynthesisFailure"
        /\ job[j].status = 500

\* C24: for a file of s bytes the Index-TTS2 and the Coqui validator return
\* the same result: valid exactly if 10000 <= s <= 50*1024*1024, and on a
\* valid result recommended exactly if 10000 < s < 5000000; an invalid
\* result has no recommended key.
C24_LocalValidatorsAgree ==
    (/\ validation.phase = "returned"
     /\ validation.b \in LocalBackends
     /\ validation.file.exists /\ validation.file.readable) =>
        LET n == validation.file.size
            r == validation.result
        IN
        /\ r.valid <=> (MinSize <= n /\ n <= 50 * 1024 * 1024)
        /\ r.valid =>
              /\ "recommended" \in r.keys
              /\ r.recommended <=> (MinSize < n /\ n < RecommendedMax)
        /\ ~r.valid => "recommended" \notin r.keys
        /\ local_validate_audio_file(validation.file)
              = coqui_validate_audio_file(validation.file)

\* The Coqui validator accepts a file of exactly 5000000 bytes and the
\* Index-TTS2 validator one of exactly 10000 bytes, both with
\* recommended = false.
C24_Witness ==
    /\ validation.phase = "returned"
    /\ validation.result.valid
    /\ ~validation.result.recommended
    /\ \/ validation.b = "coqui" /\ validation.file.size = RecommendedMax
       \/ validation.b = "index" /\ validation.file.size = MinSize

\* C25: the file sent back to a synthesis request is the one its own model
\* call wrote, and no other request's model call is writing that file when
\* it is sent.
C25_OwnOutputStreamed ==
    \A j \in Threads :
        (job[j].op # "" /\ Logged(j, "send")) =>
            /\ job[j].sent.owner = job[j].rid
            /\ ~job[j].sent.writing

\* C26: a CoquiTTSConverter, after its construction and any switch_model
\* calls, is available exactly if it holds a model handle, and the handle it
\* holds is the one of the model it names.
C26_AvailableIffModelHeld ==
    converter.model_name # "" =>
        /\ converter.is_available <=> converter.tts # "None"
        /\ converter.tts # "None" => converter.tts = converter.model_name

\* C27: a switch_model call that raises leaves model_name, tts, device and
\* is_available as they were before the call.
C27_FailedSwitchKeepsState ==
    [][(/\ call.phase = "input"
        /\ call' = call
        /\ converter.model_name # ""
        /\ converter'.load_error) =>
           /\ converter'.model_name = converter.model_name
           /\ converter'.tts = converter.tts
           /\ converter'.device = converter.device
           /\ converter'.is_available = converter.is_available]_vars

\* C28: a health check constructs no backend singleton and changes nothing
\* outside its own response, answers 200, and reports <engine>_loaded = TRUE
\* exactly for the engines whose singleton an earlier request constructed,
\* whether or not the constructed backend's model is available.
C28_HealthCheckReadsOnly ==
    [][\A j \in Threads :
         (job[j].pc = "idle" /\ job'[j].ep = "health_check") =>
            /\ <<singleton, constructed, installed, disk, call, converter,
                 validation, outputs>>' =
               <<singleton, constructed, installed, disk, call, converter,
                 validation, outputs>>
            /\ \A k \in Threads \ {j} : job'[k] = job[k]
            /\ job'[j].pc = "done"
            /\ job'[j].status = 200
            /\ job'[j].log = <<>>
            /\ job'[j].conv = 0
            /\ \A b \in Backends : job'[j].health[b] <=> singleton[b] # 0]_vars

\* a health check has reported a constructed engine whose model is
\* unavailable as loaded, and another engine as not loaded
C28_Witness ==
    \E j \in Threads, b \in LocalBackends, c \in Backends :
        /\ Answered(j)
        /\ job[j].ep = "health_check"
        /\ job[j].health[b]
        /\ ~installed[b]
        /\ ~job[j].health[c]

RECURSIVE GroupSizes(_, _)
GroupSizes(grouped, locales) ==
    IF locales = {} THEN 0
    ELSE LET l == CHOOSE x \in locales : TRUE
         IN  Len(grouped[l]) + GroupSizes(grouped, locales \ {l})

VoicesOf(voices, locale) ==
    LET HasLocale(voice) == voice.locale = locale
    IN  SelectSeq(voices, HasLocale)

\* C29: in the voice listing, the groups are keyed by the locales of the
\* listed voices, each group holds exactly the voices of its locale in the
\* order of the list, no group is empty, and the group sizes sum to total,
\* which is the number of voices.
C29_GroupedPartitionsVoices ==
    (call.op = "get_voices" /\ call.phase = "returned") =>
        /\ call.total = Len(call.voices)
        /\ DOMAIN call.grouped =
             {call.voices[i].locale : i \in 1..Len(call.voices)}
        /\ \A locale \in DOMAIN call.grouped :
             /\ call.grouped[locale] # <<>>
             /\ call.grouped[locale] = VoicesOf(call.voices, locale)
        /\ GroupSizes(call.grouped, DOMAIN call.grouped) = call.total

\* a listing whose voices of one locale are separated by a voice of another
C29_Witness ==
    /\ call.op = "get_voices"
    /\ call.phase = "returned"
    /\ Len(call.voices) = 3
    /\ call.voices[1].locale = call.voices[3].locale
    /\ call.voices[1].locale # call.voices[2].locale
    /\ call.voices[1] # call.voices[3]
    /\ Len(call.grouped[call.voices[1].locale]) = 2

====
